---- MODULE Spec2Model ----
(***************************************************************************)
(* babel-plugin-remove-graphql-queries (src/index.ts): the Program visitor *)
(* that replaces graphql tagged templates by the hash of their text,       *)
(* wires StaticQuery / useStaticQuery call sites to the precomputed result *)
(* and prunes the query-tag imports afterwards.                            *)
(*                                                                         *)
(* A program is a sequence of "sites" (top-level statements in source      *)
(* order), each holding one tagged template, plus the declarations that    *)
(* bind the names the sites use.  Babel's scope is the partial function    *)
(* `bindings` (its domain are the bound names), Babel's remove() drops the *)
(* bindings of what it removes (NodePath._removeFromScope).                *)
(***************************************************************************)
EXTENDS Integers, Sequences, FiniteSets, TLC

MaxSites  == 2   \* statements holding a tagged template
MaxChain  == 1   \* longest `const x = y` chain in front of a tag
MaxQuasis == 2   \* literal segments of a template
MaxStack  == 5   \* call-stack frames available to a recursion

VARIABLES
    NODE_ENV,                 \* process.env.NODE_ENV
    sites,                    \* the program given to the pass (never changes)
    imports0,                 \* named specifiers of the gatsby import as given
    globals,                  \* names the scope crawl registered as globals
    tree,                     \* per site: the current state of its nodes
    bindings,                 \* scope: bound name -> binding
    decls,                    \* declaration id -> names it still declares
    injected,                 \* import declarations unshifted into the body
    tagsToRemoveImportsFrom,  \* the pending set, in insertion order
    pc,                       \* position of the Program visitor
    cursor,                   \* last site the running traversal has visited
    fault,                    \* the error that left the visitor, or "none"
    read,                     \* what getGraphQLTag last read of a template
    removeCalls,              \* tags removeImport has been called with
    hookImportRemoved,        \* the hook visitor removed useStaticQuery
    cls,                      \* Tag Classifier study: tag and answer
    fvd                       \* Binding Resolver study: name and answer

vars == << NODE_ENV, sites, imports0, globals, tree, bindings, decls, injected,
           tagsToRemoveImportsFrom, pc, cursor, fault, read, removeCalls,
           hookImportRemoved, cls, fvd >>

(***************************************************************************)
(* Syntax: tags, callees, bindings.                                        *)
(***************************************************************************)
Identifier(name) ==
    [type |-> "Identifier", name |-> name, object |-> "-", property |-> "-"]

MemberExpression(object, property) ==
    [type |-> "MemberExpression", name |-> "-", object |-> object,
     property |-> property]

\* The node a binding points at (binding.path) and what surrounds it.
Binding(kind, decl, source, imported, idType, initType, initName, site) ==
    [kind |-> kind, decl |-> decl, source |-> source, imported |-> imported,
     idType |-> idType, initType |-> initType, initName |-> initName,
     site |-> site]

undefined == Binding("undefined", "-", "-", "-", "-", "-", "-", 0)

ImportSpecifier(decl, source, imported) ==
    Binding("ImportSpecifier", decl, source, imported, "-", "-", "-", 0)

ImportNamespaceSpecifier(decl, source) ==
    Binding("ImportNamespaceSpecifier", decl, source, "-", "-", "-", "-", 0)

ImportDefaultSpecifier(decl, source) ==
    Binding("ImportDefaultSpecifier", decl, source, "-", "-", "-", "-", 0)

\* const x = y
AliasDeclarator(decl, init) ==
    Binding("VariableDeclarator", decl, "-", "-", "Identifier", "Identifier",
            init, 0)

\* const x = callee('source')
CallDeclarator(decl, callee, source) ==
    Binding("VariableDeclarator", decl, source, "-", "Identifier",
            "CallExpression", callee, 0)

\* const { key: x } = callee('source')
PatternDeclarator(decl, callee, source, key) ==
    Binding("VariableDeclarator", decl, source, key, "ObjectPattern",
            "CallExpression", callee, 0)

\* const x = tag`...`  (the template of site i)
QueryDeclarator(decl, i) ==
    Binding("VariableDeclarator", decl, "-", "-", "Identifier",
            "TaggedTemplateExpression", "-", i)

Restrict(f, D) == [x \in D |-> f[x]]

getBinding(b, name) == IF name \in DOMAIN b THEN b[name] ELSE undefined

isModuleBinding(bnd) ==
    bnd.kind \in {"ImportSpecifier", "ImportNamespaceSpecifier",
                  "ImportDefaultSpecifier"}

AliasName(k) == "alias" \o ToString(k)
QVar(i) == "q" \o ToString(i)

(***************************************************************************)
(* isGlobalIdentifier, followVariableDeclarations, getTagImport,           *)
(* isGraphqlTag                                                            *)
(***************************************************************************)
\* tag.isIdentifier({ name: `graphql` }) && tag.scope.hasGlobal(`graphql`)
isGlobalIdentifier(g, tag) ==
    tag.type = "Identifier" /\ tag.name = "graphql" /\ "graphql" \in g

\* One frame per call; a call needing more than `frames` frames overflows
\* the stack (RangeError), reading .path of an undefined binding is a
\* TypeError.
RECURSIVE follow(_, _, _, _)
follow(b, binding, frames, depth) ==
    IF frames = 0
    THEN [status |-> "RangeError", binding |-> undefined, depth |-> depth]
    ELSE IF binding.kind = "undefined"
    THEN [status |-> "TypeError", binding |-> undefined, depth |-> depth]
    ELSE IF /\ binding.kind = "VariableDeclarator"
            /\ binding.idType = "Identifier"
            /\ binding.initType = "Identifier"
    THEN follow(b, getBinding(b, binding.initName), frames - 1, depth + 1)
    ELSE [status |-> "returned", binding |-> binding, depth |-> depth]

followVariableDeclarations(b, binding) == follow(b, binding, MaxStack, 0)

ImportPath(type, decl, local, imported) ==
    [type |-> type, decl |-> decl, local |-> local, imported |-> imported]

null == ImportPath("null", "-", "-", "-")

\* (variant) the tag's base is first followed through `x = y` declarators
RECURSIVE terminalName(_, _, _)
terminalName(b, name, frames) ==
    LET binding == getBinding(b, name) IN
    IF /\ frames > 0
       /\ binding.kind = "VariableDeclarator"
       /\ binding.idType = "Identifier"
       /\ binding.initType = "Identifier"
    THEN terminalName(b, binding.initName, frames - 1)
    ELSE name

getTagImport_FollowAliases(b, name) ==
    LET last    == terminalName(b, name, MaxStack)
        binding == getBinding(b, last)
    IN  IF isModuleBinding(binding) /\ binding.source = "gatsby"
        THEN ImportPath(binding.kind, binding.decl, last, binding.imported)
        ELSE null

getTagImport(b, name) ==
    LET binding == getBinding(b, name) IN
    IF binding.kind = "undefined" THEN null
    ELSE IF isModuleBinding(binding) /\ binding.source = "gatsby"
    THEN ImportPath(binding.kind, binding.decl, name, binding.imported)
    ELSE IF /\ binding.kind = "VariableDeclarator"
            /\ binding.initType = "CallExpression"
            /\ binding.initName = "require"
            /\ binding.source = "gatsby"
    THEN IF binding.idType = "ObjectPattern"
         THEN ImportPath("ObjectProperty", binding.decl, name, binding.imported)
         ELSE ImportPath("Identifier", binding.decl, name, "-")
    ELSE null

TagBase(tag) == IF tag.type = "MemberExpression" THEN tag.object ELSE tag.name

isGraphqlTag(b, g, tag) ==
    LET isExpression == tag.type = "MemberExpression"
        importPath   == getTagImport(b, TagBase(tag))
    IN  IF importPath.type = "null" THEN isGlobalIdentifier(g, tag)
        ELSE IF /\ isExpression
                /\ importPath.type \in {"ImportNamespaceSpecifier", "Identifier"}
        THEN tag.property = "graphql"
        ELSE IF importPath.type = "ImportSpecifier"
        THEN importPath.imported = "graphql"
        ELSE IF importPath.type = "ObjectProperty"
        THEN importPath.imported = "graphql"
        ELSE FALSE

(***************************************************************************)
(* getGraphQLTag.  The number of quasis and the answer of graphql.parse    *)
(* are inputs, read once per template.                                     *)
(***************************************************************************)
ParseOutcomes == {"throws", "noDefinitions", "document"}

\* What the body of the try block (lines 195-200) throws.
TryParse(po) ==
    IF po = "throws" THEN "GraphQLError"
    ELSE IF po = "noDefinitions" THEN "EmptyGraphQLTagError"
    ELSE "none"

\* What getGraphQLTag has read of the template: quasis.length, and the
\* answer of graphql.parse when it got that far.
Read(nq, po) == [quasis |-> nq, parse |-> po]

NothingRead == Read(0, "-")

\* status: "notATag" ({} returned), "tag" (a record returned), or the error
getGraphQLTag(b, g, tag, nq, po) ==
    LET isGlobal == isGlobalIdentifier(g, tag) IN
    IF ~isGlobal /\ ~isGraphqlTag(b, g, tag)
    THEN [status |-> "notATag", isGlobal |-> FALSE, read |-> NothingRead]
    ELSE IF nq # 1
    THEN [status |-> "StringInterpolationNotAllowedError",
          isGlobal |-> isGlobal, read |-> Read(nq, "-")]
    ELSE IF TryParse(po) # "none"
    THEN [status |-> "GraphQLSyntaxError", isGlobal |-> isGlobal,
          read |-> Read(nq, po)]
    ELSE [status |-> "tag", isGlobal |-> isGlobal, read |-> Read(nq, po)]

\* murmurhash(text, 0): the text of site i is text i
murmurhash(text) == 4000 + text

(***************************************************************************)
(* The tree and the edits the visitors make.  S is the state of the pass:  *)
(* [tree, bindings, decls, injected, queue, calls, hookGone].              *)
(***************************************************************************)
ProductionLike == NODE_ENV \in {"production", "test"}

SeqRange(q) == {q[k] : k \in 1..Len(q)}

IsJSX(i)  == sites[i].kind \in {"jsxInline", "jsxVar"}
IsHook(i) == sites[i].kind \in {"hookInline", "hookVar"}

\* path.referencesImport(moduleSource, '')
referencesImport(b, name, moduleSource) ==
    LET binding == getBinding(b, name) IN
    isModuleBinding(binding) /\ binding.source = moduleSource

isUseStaticQuery(b, callee) ==
    \/ /\ callee.type = "MemberExpression"
       /\ callee.property = "useStaticQuery"
       /\ referencesImport(b, callee.object, "gatsby")
    \/ /\ callee.name = "useStaticQuery"
       /\ referencesImport(b, callee.name, "gatsby")

\* parent.remove() of a declaration: its names leave the scope
RemoveDeclaration(S, d) ==
    [S EXCEPT !.bindings = Restrict(@, DOMAIN @ \ S.decls[d]),
              !.decls    = Restrict(@, DOMAIN @ \ {d})]

\* importPath.remove() of one specifier or pattern property
RemoveSpecifier(S, d, name) ==
    [S EXCEPT !.bindings = Restrict(@, DOMAIN @ \ {name}),
              !.decls[d] = @ \ {name}]

\* (variant) the declaration is removed whatever else it declares
removeImport_WholeDeclaration(S, tag) ==
    LET importPath == getTagImport(S.bindings, TagBase(tag))
        S0 == [S EXCEPT !.calls = Append(@, tag)]
    IN  IF importPath.type \in {"ImportSpecifier", "ObjectProperty", "Identifier"}
        THEN RemoveDeclaration(S0, importPath.decl)
        ELSE S0

removeImport(S, tag) ==
    LET importPath == getTagImport(S.bindings, TagBase(tag))
        S0 == [S EXCEPT !.calls = Append(@, tag)]
    IN  IF importPath.type = "null" THEN S0
        ELSE IF importPath.type = "ImportSpecifier"
        THEN IF Cardinality(S.decls[importPath.decl]) = 1
             THEN RemoveDeclaration(S0, importPath.decl)
             ELSE RemoveSpecifier(S0, importPath.decl, importPath.local)
        ELSE IF importPath.type = "ObjectProperty"
        THEN IF Cardinality(S.decls[importPath.decl]) = 1
             THEN RemoveDeclaration(S0, importPath.decl)
             ELSE RemoveSpecifier(S0, importPath.decl, importPath.local)
        ELSE IF importPath.type = "Identifier"
        THEN RemoveDeclaration(S0, importPath.decl)
        ELSE S0

\* import staticQueryData from '.../public/static/d/<queryHash>.json'
SyntheticImport(queryHash) ==
    [local |-> "staticQueryData", source |-> queryHash]

\* nestedJSXVistor.JSXIdentifier on the opening name of element j
JSXIdentifierVisitor(S, j, queryHash) ==
    IF /\ ProductionLike
       /\ IsJSX(j)
       /\ referencesImport(S.bindings, "StaticQuery", "gatsby")
    THEN [S EXCEPT !.tree[j].attrs = Append(@, queryHash),
                   !.injected = <<SyntheticImport(queryHash)>> \o @]
    ELSE S

\* Remove imports to useStaticQuery (lines 277-284)
RemoveHookImport(S) ==
    LET importPath == getBinding(S.bindings, "useStaticQuery") IN
    IF importPath.kind = "ImportSpecifier"
    THEN LET S0 == [S EXCEPT !.hookGone = TRUE] IN
         IF Cardinality(S.decls[importPath.decl]) = 1
         THEN RemoveDeclaration(S0, importPath.decl)
         ELSE RemoveSpecifier(S0, importPath.decl, "useStaticQuery")
    ELSE S

\* nestedHookVisitor.CallExpression on call j
CallExpressionVisitor(S, j, queryHash) ==
    IF /\ ProductionLike
       /\ IsHook(j)
       /\ S.tree[j].expr = "CallExpression"
       /\ isUseStaticQuery(S.bindings, sites[j].callee)
    THEN LET S1 == IF sites[j].callee.type # "MemberExpression"
                   THEN RemoveHookImport(S) ELSE S
         IN  [S1 EXCEPT !.tree[j].expr = "MemberExpression",
                        !.tree[j].data = queryHash,
                        !.tree[j].tmpl = IF sites[j].kind = "hookInline"
                                         THEN "detached" ELSE @,
                        !.injected = <<SyntheticImport(queryHash)>> \o @]
    ELSE S

\* parent.traverse(visitor): the nodes under `scope` in source order;
\* scope 0 is the Program, scope i the JSXOpeningElement of site i
RECURSIVE traverseJSX(_, _, _, _)
traverseJSX(S, scope, queryHash, j) ==
    IF j > Len(sites) THEN S
    ELSE traverseJSX(IF scope \in {0, j}
                     THEN JSXIdentifierVisitor(S, j, queryHash) ELSE S,
                     scope, queryHash, j + 1)

RECURSIVE traverseHook(_, _, _, _)
traverseHook(S, scope, queryHash, j) ==
    IF j > Len(sites) THEN S
    ELSE traverseHook(IF scope = 0
                      THEN CallExpressionVisitor(S, j, queryHash) ELSE S,
                      scope, queryHash, j + 1)

\* (variant) the import is removed on the spot instead of being enqueued
EnqueueImportRemoval_RemoveNow(S, i) ==
    removeImport(IF i \in SeqRange(S.queue) THEN S
                 ELSE [S EXCEPT !.queue = Append(@, i)],
                 sites[i].tag)

\* tagsToRemoveImportsFrom.add(tag): the tag path of site i
EnqueueImportRemoval(S, i) ==
    IF i \in SeqRange(S.queue) THEN S ELSE [S EXCEPT !.queue = Append(@, i)]

\* templatePath.replaceWith(t.StringLiteral(queryHash))
ReplaceWithHash(S, i, queryHash) ==
    [S EXCEPT !.tree[i].tmpl = "StringLiteral", !.tree[i].value = queryHash]

Outcome(S, err, rd) == [S |-> S, fault |-> err, read |-> rd]

\* (variant) the template is replaced before it is validated
setImportForStaticQuery_ReplaceFirst(S, i, scope, nq, po) ==
    LET r == getGraphQLTag(S.bindings, globals, sites[i].tag, nq, po)
        queryHash == murmurhash(i)
        S1 == IF ~r.isGlobal THEN EnqueueImportRemoval(S, i) ELSE S
        S2 == ReplaceWithHash(S1, i, queryHash)
    IN  IF r.status = "notATag" THEN Outcome(S, "none", r.read)
        ELSE IF r.status # "tag" THEN Outcome(S2, r.status, r.read)
        ELSE Outcome(traverseHook(traverseJSX(S2, scope, queryHash, 1),
                                  scope, queryHash, 1), "none", r.read)

setImportForStaticQuery(S, i, scope, nq, po) ==
    LET r == getGraphQLTag(S.bindings, globals, sites[i].tag, nq, po) IN
    IF r.status = "notATag" THEN Outcome(S, "none", r.read)
    ELSE IF r.status # "tag" THEN Outcome(S, r.status, r.read)
    ELSE LET queryHash == murmurhash(i)
             S1 == IF ~r.isGlobal THEN EnqueueImportRemoval(S, i) ELSE S
             S2 == ReplaceWithHash(S1, i, queryHash)
             S3 == traverseJSX(S2, scope, queryHash, 1)
             S4 == traverseHook(S3, scope, queryHash, 1)
         IN  Outcome(S4, "none", r.read)

HasTemplate(S, i) == S.tree[i].tmpl = "TaggedTemplateExpression"

\* Sweep 1, the JSXElement visitor on <StaticQuery query={...}> of site j
JSXElementVisitor(S, j, nq, po) ==
    IF sites[j].kind = "jsxInline" /\ HasTemplate(S, j)
    THEN setImportForStaticQuery(S, j, j, nq, po)
    ELSE IF sites[j].kind = "jsxVar" /\ QVar(j) # "graphql" /\ HasTemplate(S, j)
    THEN setImportForStaticQuery(S, j, 0, nq, po)
    ELSE Outcome(S, "none", NothingRead)

\* Sweep 2, the CallExpression visitor on hook call j
HookCallVisitor(S, j, nq, po) ==
    IF ~isUseStaticQuery(S.bindings, sites[j].callee)
    THEN Outcome(S, "none", NothingRead)
    ELSE IF sites[j].kind = "hookVar"
    THEN LET binding == getBinding(S.bindings, QVar(j)) IN
         IF binding.kind = "undefined" THEN Outcome(S, "none", NothingRead)
         ELSE LET r == followVariableDeclarations(S.bindings, binding) IN
              IF r.status # "returned" THEN Outcome(S, r.status, NothingRead)
              ELSE IF /\ r.binding.initType = "TaggedTemplateExpression"
                      /\ HasTemplate(S, r.binding.site)
              THEN setImportForStaticQuery(S, r.binding.site, 0, nq, po)
              ELSE Outcome(S, "none", NothingRead)
    ELSE IF HasTemplate(S, j)
    THEN setImportForStaticQuery(S, j, 0, nq, po)
    ELSE Outcome(S, "none", NothingRead)

\* (variant) the final sweep leaves the templates of a Global tag alone
FinalSweepVisitor_SkipGlobal(S, j, nq, po) ==
    LET r == getGraphQLTag(S.bindings, globals, sites[j].tag, nq, po) IN
    IF r.status = "notATag" \/ r.isGlobal THEN Outcome(S, "none", NothingRead)
    ELSE IF r.status # "tag" THEN Outcome(S, r.status, r.read)
    ELSE Outcome(ReplaceWithHash(EnqueueImportRemoval(S, j), j, murmurhash(j)),
                 "none", r.read)

\* Sweep 3, the TaggedTemplateExpression visitor on the template of site j
FinalSweepVisitor(S, j, nq, po) ==
    LET r == getGraphQLTag(S.bindings, globals, sites[j].tag, nq, po) IN
    IF r.status = "notATag" THEN Outcome(S, "none", r.read)
    ELSE IF r.status # "tag" THEN Outcome(S, r.status, r.read)
    ELSE LET S1 == IF ~r.isGlobal THEN EnqueueImportRemoval(S, j) ELSE S
         IN  Outcome(ReplaceWithHash(S1, j, murmurhash(j)), "none", r.read)

(***************************************************************************)
(* The programs given to the pass.                                         *)
(***************************************************************************)
NoCallee   == Identifier("-")
BareHook   == Identifier("useStaticQuery")
MemberHook == MemberExpression("Gatsby", "useStaticQuery")

SiteForms ==
    { <<"jsxInline", NoCallee>>, <<"jsxVar", NoCallee>>,
      <<"hookInline", BareHook>>, <<"hookInline", MemberHook>>,
      <<"hookVar", BareHook>>, <<"plain", NoCallee>> }

\* The tags of a program: `graphql`, and one other way of writing it.
AltTags ==
    {MemberExpression("Gatsby", "graphql")}
        \cup {Identifier(AliasName(k)) : k \in 1..MaxChain}

Site(form, tag) == [kind |-> form[1], callee |-> form[2], tag |-> tag]

SiteShapes(alt) ==
    {Site(form, tag) : form \in SiteForms, tag \in {Identifier("graphql"), alt}}

Programs(alt) ==
    UNION {[1..n -> SiteShapes(alt)] : n \in 1..MaxSites}

\* const alias1 = graphql; const alias2 = alias1; ...
AliasesOf(p) ==
    {k \in 1..MaxChain :
        \E i \in 1..Len(p), m \in k..MaxChain : p[i].tag = Identifier(AliasName(m))}

QueryVarsOf(p) == {i \in 1..Len(p) : p[i].kind \in {"jsxVar", "hookVar"}}

BoundNames(p, named) ==
    named \cup {"StaticQuery", "Gatsby"}
          \cup {AliasName(k) : k \in AliasesOf(p)}
          \cup {QVar(i) : i \in QueryVarsOf(p)}

\* import { <named> } from 'gatsby'             (d1)
\* import { StaticQuery } from 'gatsby'         (d2)
\* import * as Gatsby from 'gatsby'             (d3)
ScopeOf(p, named) ==
    [name \in BoundNames(p, named) |->
        IF name \in named THEN ImportSpecifier("d1", "gatsby", name)
        ELSE IF name = "StaticQuery" THEN ImportSpecifier("d2", "gatsby", name)
        ELSE IF name = "Gatsby" THEN ImportNamespaceSpecifier("d3", "gatsby")
        ELSE IF \E k \in AliasesOf(p) : name = AliasName(k)
        THEN LET k == CHOOSE k \in AliasesOf(p) : name = AliasName(k) IN
             AliasDeclarator(name, IF k = 1 THEN "graphql" ELSE AliasName(k - 1))
        ELSE LET i == CHOOSE i \in QueryVarsOf(p) : name = QVar(i) IN
             QueryDeclarator(name, i)]

DeclsOf(p, named) ==
    LET ids == (IF named = {} THEN {} ELSE {"d1"}) \cup {"d2", "d3"}
                 \cup {AliasName(k) : k \in AliasesOf(p)}
                 \cup {QVar(i) : i \in QueryVarsOf(p)}
    IN  [d \in ids |->
            IF d = "d1" THEN named
            ELSE IF d = "d2" THEN {"StaticQuery"}
            ELSE IF d = "d3" THEN {"Gatsby"}
            ELSE {d}]

\* Scope.crawl: a referenced name without a binding becomes a global
ReferencedNames(p) ==
    {TagBase(p[i].tag) : i \in 1..Len(p)}
        \cup {"useStaticQuery" : i \in {j \in 1..Len(p) : p[j].callee = BareHook}}
        \cup (IF 1 \in AliasesOf(p) THEN {"graphql"} ELSE {})

GlobalsOf(p, named) == ReferencedNames(p) \ BoundNames(p, named)

Node(site) ==
    [tmpl  |-> "TaggedTemplateExpression",
     value |-> 0,
     attrs |-> <<>>,
     expr  |-> IF site.kind \in {"hookInline", "hookVar"} THEN "CallExpression"
               ELSE IF site.kind \in {"jsxInline", "jsxVar"} THEN "JSXElement"
               ELSE "ExportNamedDeclaration",
     data  |-> 0]

TreeOf(p) == [i \in 1..Len(p) |-> Node(p[i])]

IdleCls == [phase |-> "idle", tag |-> Identifier("-"), result |-> FALSE]
IdleFvd == [phase |-> "idle", name |-> "-", status |-> "-", depth |-> 0]

Init ==
    /\ NODE_ENV \in {"production", "development"}
    /\ imports0 \in SUBSET {"graphql", "useStaticQuery", "Link"}
    /\ \E alt \in AltTags : sites \in Programs(alt)
    /\ globals = GlobalsOf(sites, imports0)
    /\ tree = TreeOf(sites)
    /\ bindings = ScopeOf(sites, imports0)
    /\ decls = DeclsOf(sites, imports0)
    /\ injected = <<>>
    /\ tagsToRemoveImportsFrom = <<>>
    /\ pc = "sweep1"
    /\ cursor = 0
    /\ fault = "none"
    /\ read = NothingRead
    /\ removeCalls = <<>>
    /\ hookImportRemoved = FALSE
    /\ cls = IdleCls
    /\ fvd = IdleFvd

(***************************************************************************)
(* The Program visitor, one action per visitor call.                       *)
(***************************************************************************)
State ==
    [tree |-> tree, bindings |-> bindings, decls |-> decls,
     injected |-> injected, queue |-> tagsToRemoveImportsFrom,
     calls |-> removeCalls, hookGone |-> hookImportRemoved]

Commit(R) ==
    /\ tree' = R.S.tree
    /\ bindings' = R.S.bindings
    /\ decls' = R.S.decls
    /\ injected' = R.S.injected
    /\ tagsToRemoveImportsFrom' = R.S.queue
    /\ removeCalls' = R.S.calls
    /\ hookImportRemoved' = R.S.hookGone
    /\ fault' = R.fault
    /\ read' = R.read
    /\ pc' = IF R.fault = "none" THEN pc ELSE "fault"

Static == UNCHANGED << NODE_ENV, sites, imports0, globals, cls, fvd >>

\* The nodes each traversal still has to call its visitor on.
Sweep1Nodes == {j \in 1..Len(sites) : j > cursor /\ IsJSX(j)}
Sweep2Nodes ==
    {j \in 1..Len(sites) : j > cursor /\ IsHook(j)
                            /\ tree[j].expr = "CallExpression"}
Sweep3Nodes ==
    {j \in 1..Len(sites) : j > cursor /\ tree[j].tmpl = "TaggedTemplateExpression"}

First(nodes) == CHOOSE j \in nodes : \A k \in nodes : j <= k

Sweep1Visit ==
    /\ pc = "sweep1" /\ Sweep1Nodes # {}
    /\ LET j == First(Sweep1Nodes) IN
       /\ \E nq \in 1..MaxQuasis, po \in ParseOutcomes :
              Commit(JSXElementVisitor(State, j, nq, po))
       /\ cursor' = j
    /\ Static

Sweep2Visit ==
    /\ pc = "sweep2" /\ Sweep2Nodes # {}
    /\ LET j == First(Sweep2Nodes) IN
       /\ \E nq \in 1..MaxQuasis, po \in ParseOutcomes :
              Commit(HookCallVisitor(State, j, nq, po))
       /\ cursor' = j
    /\ Static

Sweep3Visit ==
    /\ pc = "sweep3" /\ Sweep3Nodes # {}
    /\ LET j == First(Sweep3Nodes) IN
       /\ \E nq \in 1..MaxQuasis, po \in ParseOutcomes :
              Commit(FinalSweepVisitor(State, j, nq, po))
       /\ cursor' = j
    /\ Static

\* A traversal returns when it has no node left; the next one starts.
EndTraversal ==
    /\ \/ pc = "sweep1" /\ Sweep1Nodes = {} /\ pc' = "sweep2"
       \/ pc = "sweep2" /\ Sweep2Nodes = {} /\ pc' = "sweep3"
       \/ pc = "sweep3" /\ Sweep3Nodes = {} /\ pc' = "drain"
    /\ cursor' = 0
    /\ UNCHANGED << tree, bindings, decls, injected, tagsToRemoveImportsFrom,
                    fault, read, removeCalls, hookImportRemoved >>
    /\ Static

\* tagsToRemoveImportsFrom.forEach(removeImport), one callback call
DrainStep ==
    /\ pc = "drain" /\ cursor < Len(tagsToRemoveImportsFrom)
    /\ Commit(Outcome(removeImport(State,
                          sites[tagsToRemoveImportsFrom[cursor + 1]].tag),
                      "none", read))
    /\ cursor' = cursor + 1
    /\ Static

Return ==
    /\ pc = "drain" /\ cursor = Len(tagsToRemoveImportsFrom)
    /\ pc' = "done"
    /\ UNCHANGED << tree, bindings, decls, injected, tagsToRemoveImportsFrom,
                    cursor, fault, read, removeCalls, hookImportRemoved >>
    /\ Static

Next ==
    \/ Sweep1Visit
    \/ Sweep2Visit
    \/ Sweep3Visit
    \/ EndTraversal
    \/ DrainStep
    \/ Return

Spec == Init /\ [][Next]_vars

(***************************************************************************)
(* Properties of the pass.                                                 *)
(***************************************************************************)
Scope0 == ScopeOf(sites, imports0)
Decls0 == DeclsOf(sites, imports0)
Tree0  == TreeOf(sites)

Sweeping == pc \in {"sweep1", "sweep2", "sweep3"}

QueuedTags ==
    [k \in 1..Len(tagsToRemoveImportsFrom) |->
        sites[tagsToRemoveImportsFrom[k]].tag]

NoDuplicates(q) == \A k, l \in 1..Len(q) : q[k] = q[l] => k = l

Classifies(b, tag) == isGlobalIdentifier(globals, tag) \/ isGraphqlTag(b, globals, tag)

\* C1: removal of a tag's import is deferred.  While the three sweeps run
\* (and when a fault ends them) removeImport has not been called and the
\* import of every enqueued tag is still the one the program was given; a
\* non-Global tag is in the pending set at most once; the drain calls
\* removeImport on the enqueued tags in order, and when the visitor returns
\* it has been called exactly once per enqueued tag.
C1_RemovalDeferred ==
    /\ NoDuplicates(tagsToRemoveImportsFrom)
    /\ \A k \in 1..Len(tagsToRemoveImportsFrom) :
           ~isGlobalIdentifier(globals, QueuedTags[k])
    /\ (Sweeping \/ pc = "fault") =>
           /\ removeCalls = <<>>
           /\ \A k \in 1..Len(tagsToRemoveImportsFrom) :
                  getTagImport(bindings, TagBase(QueuedTags[k]))
                      = getTagImport(Scope0, TagBase(QueuedTags[k]))
    /\ pc = "drain" => removeCalls = SubSeq(QueuedTags, 1, cursor)
    /\ pc = "done" => removeCalls = QueuedTags

\* C1 witness: the visitor has returned after two removeImport calls, a
\* Global-free program with two enqueued tags.
C1_Witness ==
    /\ pc = "done"
    /\ Len(removeCalls) >= 2
    /\ \E i \in 1..Len(sites) : tree[i].tmpl = "StringLiteral"

\* C2 (as claimed): when the parser gives a document without definitions,
\* the error that leaves getGraphQLTag is EmptyGraphQLTagError.
C2_EmptyQueryFault ==
    read.parse = "noDefinitions" => fault = "EmptyGraphQLTagError"

\* C3 (as claimed): when StringInterpolationNotAllowedError leaves the pass,
\* the tree is the tree the pass was given.
C3_TreeAsGiven ==
    fault = "StringInterpolationNotAllowedError" =>
        /\ tree = Tree0
        /\ bindings = Scope0
        /\ decls = Decls0
        /\ injected = <<>>
        /\ tagsToRemoveImportsFrom = <<>>

\* C3 (amended): a visitor call that reads two or more quasis of a query
\* tag's template ends the pass with StringInterpolationNotAllowedError, and
\* that call changes nothing: the template is not replaced, no tag is
\* enqueued, no import is inserted or removed.  What earlier calls have
\* rewritten stays rewritten.
C3_FaultyTemplateUntouched ==
    [][ (read'.quasis >= 2 \/ fault' = "StringInterpolationNotAllowedError") =>
            /\ read'.quasis >= 2
            /\ fault' = "StringInterpolationNotAllowedError"
            /\ pc' = "fault"
            /\ UNCHANGED << tree, bindings, decls, injected,
                            tagsToRemoveImportsFrom, removeCalls >> ]_vars

\* C3 witness: the fault left the pass after an earlier query was rewritten.
C3_Witness ==
    /\ fault = "StringInterpolationNotAllowedError"
    /\ \E i \in 1..Len(sites) : tree[i].tmpl = "StringLiteral"
    /\ \E i \in 1..Len(sites) : tree[i].tmpl = "TaggedTemplateExpression"
                                   /\ Classifies(bindings, sites[i].tag)

IsAliasTag(tag) == \E k \in 1..MaxChain : tag = Identifier(AliasName(k))

BacksRemovedTag(name) ==
    \E k \in 1..Len(tagsToRemoveImportsFrom) : TagBase(QueuedTags[k]) = name

DeclarationIs(d, names) ==
    IF names = {} THEN d \notin DOMAIN decls
    ELSE d \in DOMAIN decls /\ decls[d] = names

\* C6 (as claimed): the gatsby import has N named specifiers of which
\* graphql backs the removed tags; after the drain it has the other N-1
\* specifiers when N > 1 and is gone when N = 1.
C6_RetainsAllOthers ==
    (pc = "done" /\ "graphql" \in imports0 /\ BacksRemovedTag("graphql")) =>
        DeclarationIs("d1", imports0 \ {"graphql"})

\* C6 (amended): the drain removes exactly the specifier that backs the
\* removed tags.  The declaration keeps the others that were still there
\* when the drain began, which are all of them except useStaticQuery when
\* the hook visitor has removed it, and the declaration is gone when none is
\* left.  The names kept are still bound, graphql is not.
C6_DrainRemovesOneSpecifier ==
    (pc = "done" /\ "graphql" \in imports0 /\ BacksRemovedTag("graphql")) =>
        LET kept == (imports0 \ {"graphql"}) \
                        (IF hookImportRemoved THEN {"useStaticQuery"} ELSE {})
        IN  /\ DeclarationIs("d1", kept)
            /\ DOMAIN bindings \cap imports0 = kept

\* C6 witness: two tags shared the graphql specifier, removeImport ran for
\* both, and the sibling Link is still imported.
C6_Witness ==
    /\ pc = "done"
    /\ \E k, l \in 1..Len(removeCalls) :
           k # l /\ TagBase(removeCalls[k]) = "graphql"
                 /\ TagBase(removeCalls[l]) = "graphql"
    /\ "d1" \in DOMAIN decls /\ "Link" \in decls["d1"]
    /\ "graphql" \notin DOMAIN bindings

\* C7: when the pass returns, no tagged template whose tag classifies as
\* the query tag (by an import or as the Global) is left in the tree.
C7_NoQueryTagLeft ==
    pc = "done" =>
        \A i \in 1..Len(sites) :
            tree[i].tmpl = "TaggedTemplateExpression" =>
                /\ ~Classifies(bindings, sites[i].tag)
                /\ ~Classifies(Scope0, sites[i].tag)

\* C7 witness: the pass returned having replaced a Global-tagged template
\* of an exported query and left a template that is no query tag.
C7_Witness ==
    /\ pc = "done"
    /\ \E i, j \in 1..Len(sites) :
           /\ sites[i].kind = "plain"
           /\ isGlobalIdentifier(globals, sites[i].tag)
           /\ tree[i].tmpl = "StringLiteral"
           /\ tree[j].tmpl = "TaggedTemplateExpression"

Injections(i) ==
    IF IsJSX(i) THEN Len(tree[i].attrs)
    ELSE IF tree[i].expr = "MemberExpression" THEN 1 ELSE 0

\* C8 (as claimed): in production-like mode no two injected imports bind
\* the same local identifier, and no site has received two injections.
C8_NoCollision ==
    (pc = "done" /\ ProductionLike) =>
        /\ \A k, l \in 1..Len(injected) :
               injected[k].local = injected[l].local => k = l
        /\ \A i \in 1..Len(sites) : Injections(i) <= 1

\* The program consists of bare hook calls, each with a query of its own.
OnlyBareHookCalls ==
    \A i \in 1..Len(sites) :
        /\ IsHook(i)
        /\ sites[i].callee = BareHook
        /\ Classifies(Scope0, sites[i].tag)

\* C10 (as claimed): in production-like mode, once the import of
\* useStaticQuery is removed, every bare hook call that carries its own
\* query has become `staticQueryData.data` of the import of its own hash.
C10_NoHookCallLeft ==
    (pc = "done" /\ ProductionLike /\ hookImportRemoved /\ OnlyBareHookCalls) =>
        \A i \in 1..Len(sites) :
            /\ tree[i].expr = "MemberExpression"
            /\ tree[i].data = murmurhash(i)

(***************************************************************************)
(* The Tag Classifier on its own: isGraphqlTag (and removeImport) applied  *)
(* to one tag under every scope two names can have.                        *)
(***************************************************************************)
ClassifyNames == {"graphql", "g"}

\* The ways a name can be declared, and "unbound"
Declarations(name, names) ==
    {undefined}
        \cup {ImportSpecifier("d1", "gatsby", imp) : imp \in {"graphql", "Link"}}
        \cup {ImportSpecifier("d4", "other", "graphql")}
        \cup {ImportNamespaceSpecifier(name, "gatsby"),
              ImportDefaultSpecifier(name, "gatsby")}
        \cup {CallDeclarator(name, "require", src) : src \in {"gatsby", "other"}}
        \cup {CallDeclarator(name, "load", "gatsby")}
        \cup {PatternDeclarator("d6", "require", "gatsby", key) :
                 key \in {"graphql", "Link"}}
        \cup {AliasDeclarator(name, init) : init \in names}

Scopes(names, choice) ==
    Restrict(choice, {n \in names : choice[n] # undefined})

DeclsOfScope(b) ==
    [d \in {b[n].decl : n \in DOMAIN b} |-> {n \in DOMAIN b : b[n].decl = d}]

ReferencedIn(b) ==
    {b[n].initName : n \in {m \in DOMAIN b : b[m].initType = "Identifier"}}

ClassifyTags ==
    {Identifier(n) : n \in ClassifyNames}
        \cup {MemberExpression(n, prop) :
                 n \in ClassifyNames, prop \in {"graphql", "foo"}}

NoProgram ==
    /\ NODE_ENV = "development"
    /\ sites = <<>>
    /\ imports0 = {}
    /\ tree = <<>>
    /\ injected = <<>>
    /\ tagsToRemoveImportsFrom = <<>>
    /\ cursor = 0
    /\ fault = "none"
    /\ read = NothingRead
    /\ removeCalls = <<>>
    /\ hookImportRemoved = FALSE

InitClassify ==
    /\ NoProgram
    /\ pc = "classify"
    /\ \E choice \in [ClassifyNames -> UNION {Declarations(n, ClassifyNames) :
                                                 n \in ClassifyNames}] :
          /\ \A n \in ClassifyNames : choice[n] \in Declarations(n, ClassifyNames)
          /\ bindings = Scopes(ClassifyNames, choice)
    /\ decls = DeclsOfScope(bindings)
    /\ \E tag \in ClassifyTags :
          /\ cls = [phase |-> "ready", tag |-> tag, result |-> FALSE]
          /\ globals = (ReferencedIn(bindings) \cup {TagBase(tag)}) \ DOMAIN bindings
    /\ fvd = IdleFvd

Classify ==
    /\ pc = "classify" /\ cls.phase = "ready"
    /\ cls' = [cls EXCEPT !.phase = "classified",
                          !.result = isGraphqlTag(bindings, globals, cls.tag)]
    /\ UNCHANGED << NODE_ENV, sites, imports0, globals, tree, bindings, decls,
                    injected, tagsToRemoveImportsFrom, pc, cursor, fault, read,
                    removeCalls, hookImportRemoved, fvd >>

\* removeImport on a tag found to be a query tag that is not the Global
Prune ==
    /\ pc = "classify" /\ cls.phase = "classified"
    /\ cls.result /\ ~isGlobalIdentifier(globals, cls.tag)
    /\ LET S == removeImport(State, cls.tag) IN
       /\ bindings' = S.bindings
       /\ decls' = S.decls
       /\ removeCalls' = S.calls
    /\ cls' = [cls EXCEPT !.phase = "pruned"]
    /\ UNCHANGED << NODE_ENV, sites, imports0, globals, tree, injected,
                    tagsToRemoveImportsFrom, pc, cursor, fault, read,
                    hookImportRemoved, fvd >>

NextClassify == Classify \/ Prune

SpecClassify == InitClassify /\ [][NextClassify]_vars

\* C4 (as claimed): a property-access tag whose base is bound by a named
\* import specifier of gatsby is never the query tag.
C4_MemberOfNamedImportNeverMatches ==
    (/\ cls.phase = "classified"
     /\ cls.tag.type = "MemberExpression"
     /\ getBinding(bindings, cls.tag.object).kind = "ImportSpecifier"
     /\ getBinding(bindings, cls.tag.object).source = "gatsby")
        => ~cls.result

(***************************************************************************)
(* The Binding Resolver on its own: followVariableDeclarations applied to  *)
(* the binding of a hook argument under every scope three names can have.  *)
(***************************************************************************)
ResolverNames == {"a", "b", "c"}

ResolverDeclarations(name) ==
    {undefined, ImportSpecifier("d1", "gatsby", "graphql"),
     QueryDeclarator(name, 0)}
        \cup {AliasDeclarator(name, init) : init \in ResolverNames \cup {"x"}}

InitResolver ==
    /\ NoProgram
    /\ pc = "resolve"
    /\ \E choice \in [ResolverNames -> UNION {ResolverDeclarations(n) :
                                                 n \in ResolverNames}] :
          /\ \A n \in ResolverNames : choice[n] \in ResolverDeclarations(n)
          /\ bindings = Scopes(ResolverNames, choice)
    /\ decls = DeclsOfScope(bindings)
    /\ globals = ReferencedIn(bindings) \ DOMAIN bindings
    /\ \E name \in ResolverNames :
          fvd = [phase |-> "ready", name |-> name, status |-> "-", depth |-> 0]
    /\ cls = IdleCls

\* const binding = hookPath.scope.getBinding(varName)
\* if (binding) followVariableDeclarations(binding)
Resolve ==
    /\ pc = "resolve" /\ fvd.phase = "ready"
    /\ LET binding == getBinding(bindings, fvd.name) IN
       IF binding.kind = "undefined"
       THEN fvd' = [fvd EXCEPT !.phase = "skipped"]
       ELSE LET r == followVariableDeclarations(bindings, binding) IN
            fvd' = [fvd EXCEPT !.phase = "done", !.status = r.status,
                               !.depth = r.depth]
    /\ UNCHANGED << NODE_ENV, sites, imports0, globals, tree, bindings, decls,
                    injected, tagsToRemoveImportsFrom, pc, cursor, fault, read,
                    removeCalls, hookImportRemoved, cls >>

NextResolver == Resolve

SpecResolver == InitResolver /\ [][NextResolver]_vars

\* Every name a declarator is initialized by is declared itself.
ChainsDeclared ==
    \A n \in DOMAIN bindings :
        bindings[n].initType = "Identifier" => bindings[n].initName \in DOMAIN bindings

\* C9 (as claimed): on every chain of declarations, a cyclic one included,
\* the recursion visits no declarator twice and returns a binding.
C9_ResolverReturns ==
    (fvd.phase = "done" /\ ChainsDeclared) =>
        /\ fvd.status = "returned"
        /\ fvd.depth < Cardinality(DOMAIN bindings)

====
